---- MODULE Spec2Model ----
(***************************************************************************)
(* Mini_RAG: the ingestion pipeline (parse -> delete-by-source -> chunk -> *)
(* embed -> upsert) and the query pipeline (embed query -> vector search   *)
(* -> rerank -> relevance gate -> answer) over the one shared resource,    *)
(* the Qdrant collection; and the chunker and the answer synthesizer       *)
(* called on their own with every argument of a bounded set.  Further      *)
(* units: file upload, the reset endpoint, upsert_chunks called directly,  *)
(* and the helpers generate_chunk_id, create_chunks_from_document and      *)
(* estimate_chunks.                                                        *)
(*                                                                         *)
(* A text is a sequence of characters; the tokenizer groups characters     *)
(* into tokens.  Every call of an external provider (Qdrant, the embedding *)
(* API, the reranker) is one step of a request and may fail.               *)
(***************************************************************************)
EXTENDS Integers, Sequences, FiniteSets, TLC

\* ------------------------------------------------------------------ bounds
\* Number of ingest requests in one behaviour.
MaxIngests == 3

\* Number of ingest requests in one behaviour with concurrent workers.
MaxConcIngests == 2

\* Request workers of the host (each runs one request at a time).
Procs == {1, 2}

\* Values time.time() takes while the behaviour runs (whole seconds).
Times == {0}

\* Characters: a word character and a whitespace character.
Chars == {"a", " "}

\* The texts handed to ingest: empty, whitespace-only, one chunk, two
\* chunks, and two chunks the second of which is whitespace-only.
Texts ==
  { <<>>, <<" ">>, <<"a">>, <<"a", " ", "a">>, <<"a", " ", " ">> }

\* Explicit source names; "" stands for an absent (None) source_name.
SourceNames == {"a.txt", "b.txt"}
NoSource == ""

\* --------------------------------------------------------------- settings
\* settings.chunk_size and settings.chunk_overlap, in tokens (scaled down
\* from 1000 and 120; the ratio overlap < size is kept).
chunk_size == 2
chunk_overlap == 1

\* ------------------------------------------------------------ text helpers
Min(a, b) == IF a <= b THEN a ELSE b

\* s[start:end] of Python for 0 <= start, 0 <= end (clipped to the length).
Slice(s, start, end) ==
  IF start >= Min(end, Len(s)) THEN <<>>
  ELSE SubSeq(s, start + 1, Min(end, Len(s)))

\* str.strip(): leading and trailing whitespace removed.
RECURSIVE LStrip(_)
LStrip(s) ==
  IF s = <<>> THEN <<>>
  ELSE IF Head(s) = " " THEN LStrip(Tail(s)) ELSE s

RECURSIVE RStrip(_)
RStrip(s) ==
  IF s = <<>> THEN <<>>
  ELSE IF s[Len(s)] = " " THEN RStrip(SubSeq(s, 1, Len(s) - 1)) ELSE s

Strip(s) == RStrip(LStrip(s))

\* encoding.encode: greedy left-to-right tokenisation; two adjacent word
\* characters merge into one token, every other character is its own token.
RECURSIVE encode(_)
encode(text) ==
  IF text = <<>> THEN <<>>
  ELSE IF Len(text) >= 2 /\ text[1] = "a" /\ text[2] = "a"
       THEN <<SubSeq(text, 1, 2)>> \o encode(SubSeq(text, 3, Len(text)))
       ELSE <<SubSeq(text, 1, 1)>> \o encode(Tail(text))

\* encoding.decode: the characters of the tokens, concatenated.
RECURSIVE decode(_)
decode(tokens) ==
  IF tokens = <<>> THEN <<>> ELSE Head(tokens) \o decode(Tail(tokens))

\* ---------------------------------------------------------------- chunking
\* The while loop of chunk_text, from window start `start`.
RECURSIVE ChunkWindows(_, _, _, _)
ChunkWindows(tokens, start, size, overlap) ==
  LET end == start + size
      chunk == decode(Slice(tokens, start, end))
  IN  IF end >= Len(tokens) THEN <<chunk>>
      ELSE <<chunk>> \o ChunkWindows(tokens, end - overlap, size, overlap)

\* TextChunker(size, overlap).chunk_text(text)
chunk_text(text, size, overlap) ==
  IF text = <<>> \/ Strip(text) = <<>> THEN <<>>
  ELSE LET tokens == encode(text)
       IN  IF Len(tokens) <= size THEN <<text>>
           ELSE ChunkWindows(tokens, 0, size, overlap)

\* Length of text[:100] in generate_chunk_id, in characters (scaled down).
IdPrefixLen == 2

\* generate_chunk_id: the string that is hashed stands for its digest.
generate_chunk_id(text, source, index) ==
  <<source, index, Slice(text, 0, IdPrefixLen)>>

\* create_chunks_from_document followed by the metadata loop of ingest_text:
\* the metadata dict of every chunk (source and chunk_id).
BuildMetadatas(chunks, source) ==
  [i \in 1..Len(chunks) |->
     [source |-> source,
      section |-> "",
      chunk_id |-> generate_chunk_id(chunks[i], source, i - 1)]]

\* --------------------------------------------------------------- embedding
\* text.replace("\n", " ").strip() of embed_batch.
CleanText(text) == Strip(text)

\* The vector the embedding provider returns for a cleaned text.
EmbedContent(cleaned) == <<"vec", cleaned>>

\* embed_batch when no provider call fails: one vector per chunk whose
\* cleaned text is not empty; the other chunks are skipped.
RECURSIVE embed_batch(_)
embed_batch(texts) ==
  IF texts = <<>> THEN <<>>
  ELSE IF CleanText(Head(texts)) = <<>> THEN embed_batch(Tail(texts))
       ELSE <<EmbedContent(CleanText(Head(texts)))>> \o embed_batch(Tail(texts))

\* embed_batch calls the provider at least once (so it can fail).
CallsProvider(texts) == \E i \in 1..Len(texts) : CleanText(texts[i]) # <<>>

\* ------------------------------------------------------------ vector store
\* A length guard that compares the chunks with the metadatas only.
LengthMismatchChunksMetadatas(chunks, embeddings, metadatas) ==
  Len(chunks) # Len(metadatas)

\* The length guard of upsert_chunks: Python's chained comparison
\* a != b != c is (a != b) and (b != c).
LengthMismatch(chunks, embeddings, metadatas) ==
  Len(chunks) # Len(embeddings) /\ Len(embeddings) # Len(metadatas)

\* The points upsert_chunks builds: zip stops at the shortest list; uuid4
\* gives every point a fresh id, modelled as (ingest number, position).
BuildPoints(g, chunks, embeddings, metadatas) ==
  { [point_id |-> <<g, i>>,
     vector |-> embeddings[i],
     text |-> chunks[i],
     chunk_id |-> metadatas[i].chunk_id,
     source |-> metadatas[i].source,
     section |-> metadatas[i].section] :
    i \in 1..Min(Len(chunks), Min(Len(embeddings), Len(metadatas))) }

\* A filter that matches every point, whatever its source.
MatchAnySource(points, source) == points

\* The points a delete with the filter source == `source` removes.
MatchSource(points, source) == { pt \in points : pt.source = source }

\* A delete that removes nothing.
DeleteNothing(points, source) == points

\* A delete that clears the collection.
DeleteEverything(points, source) == {}

\* Qdrant delete by filter.
DeletePoints(points, source) == points \ MatchSource(points, source)

\* The ingest that wrote a point (from its storage id).
GenOf(pt) == pt.point_id[1]

\* ------------------------------------------------------------------- state
VARIABLES
  store,          \* the points of the Qdrant collection "rag_doc"
  pc,             \* pc[p]: where worker p stands in ingest_text
  source_name,    \* source_name[p]: the resolved source name
  parsed_text,    \* parsed_text[p]: parsed.text
  existing_count, \* existing_count[p] of _delete_existing_source
  chunks,         \* chunks[p]
  metadatas,      \* metadatas[p]
  embeddings,     \* embeddings[p]
  result,         \* result[p]: the dict ingest_text returned
  gen,            \* gen[p]: number of the ingest worker p runs (history)
  before,         \* before[p]: the store when that ingest started (history)
  steps,          \* steps[p]: outcome of every step of that ingest (history)
  prev,           \* prev[p]: the ingest worker p ran before this one (history)
  srcs,           \* srcs[g]: the source name of ingest g (history)
  targeted,       \* ingests whose points a delete request matched (history)
  qpc,            \* where the query request stands
  top_k,          \* top_k.retrieval, top_k.rerank of retrieve_and_rerank
  retrieved_chunks, \* the list vectorstore.search returned
  reranked_chunks,  \* the list retrieve_and_rerank returned
  rerank_status,  \* how the call of the reranking provider ended (history)
  rerank_response, \* rerank_response.results of the provider (history)
  has_relevant_context, \* the result of check_context_relevance
  invoked,        \* the answer paths the query request called (history)
  query_response, \* the QueryResponse the query request returned
  chunker,        \* a TextChunker and the locals of its chunk_text call
  answer,         \* the arguments and the results of a generate_answer call
  uploaded_as,    \* uploaded_as[g]: the filename ingest g was uploaded as
  upsert_call,    \* the arguments and the result of an upsert_chunks call
  util,           \* the arguments and the result of a call of a pure helper
  reset_response  \* what the reset endpoint answered

\* The state of the ingest workers.
ivars ==
  <<pc, source_name, uploaded_as, parsed_text, existing_count, chunks,
    metadatas, embeddings, result, gen, before, steps, prev, srcs, targeted>>

\* The state of the query request.
qvars ==
  <<qpc, top_k, retrieved_chunks, reranked_chunks, rerank_status,
    rerank_response, has_relevant_context, invoked, query_response>>

\* The state of the other units called on their own (upsert_chunks, the pure
\* helpers) and of the reset endpoint.
xvars == <<upsert_call, util, reset_response>>

\* The state of the units called on their own (chunker, answer synthesis).
uvars == <<chunker, answer, xvars>>

vars == <<store, ivars, qvars, uvars>>

NoResult == [success |-> FALSE, document_id |-> "", chunks_created |-> 0]

NoSteps == [count |-> "none", delete |-> "none", embed |-> "none", upsert |-> "none"]

NoPrev == [source |-> "", text |-> <<>>, outcome |-> "idle"]

\* No QueryResponse yet.
NoResponse ==
  [answer |-> "none", sources |-> <<>>, has_context |-> FALSE,
   general_answer |-> "none", token_usage |-> "none"]

\* No chunk_text call yet.
NoChunker ==
  [pc |-> "idle", text |-> <<>>, chunk_size |-> 0, chunk_overlap |-> 0,
   tokens |-> <<>>, start |-> 0, chunks |-> <<>>]

\* No generate_answer call yet.
NoAnswer ==
  [pc |-> "idle", context_chunks |-> <<>>, chat_history |-> <<>>,
   chat_history_turns |-> 0,
   prompt |-> [query |-> <<>>, context |-> <<>>, history |-> <<>>],
   sources |-> <<>>]

\* How an ingest ended: with success ("done"), with a failure after its
\* delete request succeeded and before any upsert request was sent
\* ("aborted"), or with another failure ("failed").
Outcome(st, at) ==
  IF at = "failed" /\ st.delete = "ok" /\ st.upsert \in {"none", "rejected"}
  THEN "aborted"
  ELSE at

\* The ingest was started by ingest_text, not by ingest_uploaded_file.
NoUpload == ""

\* No upsert_chunks call yet.
NoUpsert ==
  [n |-> 0, chunks |-> <<>>, embeddings |-> <<>>, metadatas |-> <<>>,
   outcome |-> "none", count |-> 0, before |-> {}]

\* No call of a pure helper yet.
NoUtil == [op |-> "none"]

\* No reset request yet.
NoReset == [status_code |-> 0, environment |-> "none", before |-> {}]

Init ==
  /\ store = {}
  /\ pc = [p \in Procs |-> "idle"]
  /\ source_name = [p \in Procs |-> ""]
  /\ parsed_text = [p \in Procs |-> <<>>]
  /\ existing_count = [p \in Procs |-> 0]
  /\ chunks = [p \in Procs |-> <<>>]
  /\ metadatas = [p \in Procs |-> <<>>]
  /\ embeddings = [p \in Procs |-> <<>>]
  /\ result = [p \in Procs |-> NoResult]
  /\ gen = [p \in Procs |-> 0]
  /\ before = [p \in Procs |-> {}]
  /\ steps = [p \in Procs |-> NoSteps]
  /\ prev = [p \in Procs |-> NoPrev]
  /\ srcs = <<>>
  /\ targeted = {}
  /\ qpc = "idle"
  /\ top_k = [retrieval |-> 0, rerank |-> 0]
  /\ retrieved_chunks = <<>>
  /\ reranked_chunks = <<>>
  /\ rerank_status = "none"
  /\ rerank_response = <<>>
  /\ has_relevant_context = FALSE
  /\ invoked = <<>>
  /\ query_response = NoResponse
  /\ chunker = NoChunker
  /\ answer = NoAnswer
  /\ uploaded_as = <<>>
  /\ upsert_call = NoUpsert
  /\ util = NoUtil
  /\ reset_response = NoReset

\* A worker is inside ingest_text.
Running(p) == pc[p] \in {"count", "delete", "embed", "upsert"}

\* f"text_{int(time.time())}.txt"
GeneratedName(t) == IF t = 0 THEN "text_0.txt" ELSE "text_n.txt"

\* ingest_text, lines 61-71: resolve the source name and parse the text
\* (parse_raw_text keeps the text as it is).
StartIngest(p, text, name, t, limit) ==
  /\ ~Running(p)
  /\ Len(srcs) < limit
  /\ LET src == IF name = NoSource THEN GeneratedName(t) ELSE name
     IN  /\ source_name' = [source_name EXCEPT ![p] = src]
         /\ srcs' = Append(srcs, src)
  /\ parsed_text' = [parsed_text EXCEPT ![p] = text]
  /\ gen' = [gen EXCEPT ![p] = Len(srcs) + 1]
  /\ before' = [before EXCEPT ![p] = store]
  /\ prev' = [prev EXCEPT ![p] =
                [source |-> source_name[p], text |-> parsed_text[p],
                 outcome |-> Outcome(steps[p], pc[p])]]
  /\ steps' = [steps EXCEPT ![p] = NoSteps]
  /\ result' = [result EXCEPT ![p] = NoResult]
  /\ pc' = [pc EXCEPT ![p] = "count"]
  /\ uploaded_as' = Append(uploaded_as, NoUpload)
  /\ UNCHANGED <<store, existing_count, chunks, metadatas, embeddings, targeted>>
  /\ UNCHANGED <<qvars, uvars>>

\* count_points inside _delete_existing_source: a failure of the database
\* call is caught in count_points, which then returns 0.
CountPoints(p, ok) ==
  /\ pc[p] = "count"
  /\ LET n == IF ok THEN Cardinality(store) ELSE 0
     IN  /\ existing_count' = [existing_count EXCEPT ![p] = n]
         /\ pc' = [pc EXCEPT ![p] = IF n > 0 THEN "delete" ELSE "embed"]
         /\ steps' = [steps EXCEPT
                        ![p].count = IF ok THEN "ok" ELSE "failed",
                        ![p].delete = IF n > 0 THEN "none" ELSE "skipped"]
  /\ UNCHANGED <<store, source_name, uploaded_as, parsed_text, chunks, metadatas,
                 embeddings, result, gen, before, prev, srcs, targeted>>
  /\ UNCHANGED <<qvars, uvars>>

\* delete_by_source inside _delete_existing_source: a failure is raised by
\* delete_by_source and caught (logged as a warning) by its caller.
DeleteBySource(p, ok) ==
  /\ pc[p] = "delete"
  /\ store' = IF ok THEN DeletePoints(store, source_name[p]) ELSE store
  /\ targeted' =
       IF ok
       THEN targeted \cup { GenOf(pt) : pt \in { x \in store : x.source = source_name[p] } }
       ELSE targeted
  /\ steps' = [steps EXCEPT ![p].delete = IF ok THEN "ok" ELSE "failed"]
  /\ pc' = [pc EXCEPT ![p] = "embed"]
  /\ UNCHANGED <<source_name, uploaded_as, parsed_text, existing_count, chunks, metadatas,
                 embeddings, result, gen, before, prev, srcs>>
  /\ UNCHANGED <<qvars, uvars>>

\* ingest_text, lines 76-103: chunk the text, build the metadata with the
\* chunk ids, and embed the chunks.  When embed_batch raises, ingest_text
\* raises and its locals are gone.
EmbedBatch(p, ok) ==
  /\ pc[p] = "embed"
  /\ LET cs == chunk_text(parsed_text[p], chunk_size, chunk_overlap)
     IN  /\ ~ok => CallsProvider(cs)
         /\ chunks' = [chunks EXCEPT ![p] = IF ok THEN cs ELSE <<>>]
         /\ metadatas' = [metadatas EXCEPT ![p] =
                            IF ok THEN BuildMetadatas(cs, source_name[p]) ELSE <<>>]
         /\ embeddings' = [embeddings EXCEPT ![p] = IF ok THEN embed_batch(cs) ELSE <<>>]
  /\ existing_count' = [existing_count EXCEPT ![p] = IF ok THEN @ ELSE 0]
  /\ pc' = [pc EXCEPT ![p] = IF ok THEN "upsert" ELSE "failed"]
  /\ steps' = [steps EXCEPT ![p].embed = IF ok THEN "ok" ELSE "failed"]
  /\ UNCHANGED <<store, source_name, uploaded_as, parsed_text, result, gen, before, prev,
                 srcs, targeted>>
  /\ UNCHANGED <<qvars, uvars>>

\* upsert_chunks and the return of ingest_text, lines 105-122; the locals of
\* ingest_text are gone when it returns or raises.  ingest_file ends in the
\* same way (lines 206-229), and ingest_uploaded_file then replaces the
\* document_id of the result by the uploaded filename (line 268).
UpsertChunks(p, ok) ==
  /\ pc[p] = "upsert"
  /\ LET c == chunks[p]
         e == embeddings[p]
         m == metadatas[p]
         points == BuildPoints(gen[p], c, e, m)
         raised == LengthMismatch(c, e, m) \/ (c # <<>> /\ ~ok)
         count == IF c = <<>> THEN 0 ELSE Cardinality(points)
     IN  /\ ~ok => (~LengthMismatch(c, e, m) /\ c # <<>>)
         /\ store' = IF raised \/ c = <<>> THEN store ELSE store \cup points
         /\ pc' = [pc EXCEPT ![p] = IF raised THEN "failed" ELSE "done"]
         /\ result' = [result EXCEPT ![p] =
                         IF raised THEN NoResult
                         ELSE [success |-> TRUE,
                               document_id |->
                                 IF uploaded_as[gen[p]] = NoUpload
                                 THEN source_name[p]
                                 ELSE uploaded_as[gen[p]],
                               chunks_created |-> count]]
         /\ steps' = [steps EXCEPT
                        ![p].upsert =
                           IF LengthMismatch(c, e, m) THEN "rejected"
                           ELSE IF c = <<>> THEN "skipped"
                           ELSE IF ok THEN "ok" ELSE "failed"]
  /\ existing_count' = [existing_count EXCEPT ![p] = 0]
  /\ chunks' = [chunks EXCEPT ![p] = <<>>]
  /\ metadatas' = [metadatas EXCEPT ![p] = <<>>]
  /\ embeddings' = [embeddings EXCEPT ![p] = <<>>]
  /\ UNCHANGED <<source_name, uploaded_as, parsed_text, gen, before, prev, srcs, targeted>>
  /\ UNCHANGED <<qvars, uvars>>

\* One step of one ingest.
IngestStep(p) ==
  \E ok \in BOOLEAN :
    \/ CountPoints(p, ok)
    \/ DeleteBySource(p, ok)
    \/ EmbedBatch(p, ok)
    \/ UpsertChunks(p, ok)

\* A new ingest request arrives at worker p (at most `limit` requests in
\* one behaviour).
IngestRequest(p, limit) ==
  \E text \in Texts, name \in SourceNames \cup {NoSource}, t \in Times :
    StartIngest(p, text, name, t, limit)

\* ---------------------------------------------------------------- retrieval
\* Number of ingest requests in one behaviour that also serves queries.
MaxQueryIngests == 2

\* Scores (vector similarity, reranker relevance), in tenths.
Scores == {2, 3}

\* settings.min_rerank_score (0.3), in tenths.
min_rerank_score == 3

\* The queries: a word, and whitespace only.
Queries == { <<"a">>, <<" ">> }

\* Values of top_k_retrieval and the largest value of top_k_rerank.
TopKRetrieval == {1, 2}
MaxTopKRerank == 2

\* search, lines 260-279: the RetrievedChunk built from a hit.
RetrievedChunk(pt, score) ==
  [chunk_id |-> pt.chunk_id,
   text |-> pt.text,
   score |-> score,
   metadata |-> [source |-> pt.source, section |-> pt.section,
                 chunk_id |-> pt.chunk_id]]

\* A search that returns every point, whatever the limit.
SearchHitsIgnoringLimit(points, limit) ==
  LET n == Cardinality(points)
  IN  { h \in [1..n -> points \X Scores] :
          \A i, j \in 1..n : i # j => h[i][1] # h[j][1] }

\* What client.search may return for `limit`: the hits are distinct points
\* of the collection, as many as the limit allows, each with a score.
SearchHits(points, limit) ==
  LET n == Min(limit, Cardinality(points))
  IN  { h \in [1..n -> points \X Scores] :
          \A i, j \in 1..n : i # j => h[i][1] # h[j][1] }

\* What the reranking provider may return for n_docs documents and top_n:
\* (index, relevance_score) pairs with distinct indices of the documents.
RerankResponses(n_docs, top_n) ==
  LET n == Min(top_n, n_docs)
  IN  { r \in [1..n -> (0..(n_docs - 1)) \X Scores] :
          \A i, j \in 1..n : i # j => r[i][1] # r[j][1] }

\* A conversion that pairs the k-th result with the k-th retrieved chunk
\* (result.index is not used).
RerankedInRetrievedOrder(cs, response) ==
  [k \in 1..Len(response) |->
     [chunk_id |-> cs[k].chunk_id,
      text |-> cs[k].text,
      score |-> response[k][2],
      original_score |-> cs[k].score,
      metadata |-> cs[k].metadata]]

\* _rerank_with_cohere, lines 135-156: the RerankedChunk list built from
\* the provider's response.
RerankedFrom(cs, response) ==
  [k \in 1..Len(response) |->
     LET original_chunk == cs[response[k][1] + 1]
     IN  [chunk_id |-> original_chunk.chunk_id,
          text |-> original_chunk.text,
          score |-> response[k][2],
          original_score |-> original_chunk.score,
          metadata |-> original_chunk.metadata]]

\* A fallback that returns every retrieved chunk (no truncation to top_k).
FallbackUntruncated(cs, k_rerank) ==
  [k \in 1..Len(cs) |->
     [chunk_id |-> cs[k].chunk_id,
      text |-> cs[k].text,
      score |-> cs[k].score,
      original_score |-> cs[k].score,
      metadata |-> cs[k].metadata]]

\* _rerank_with_cohere, lines 158-171: the fallback list, from chunks[:top_k].
FallbackFrom(cs, k_rerank) ==
  LET head == Slice(cs, 0, k_rerank)
  IN  [k \in 1..Len(head) |->
         [chunk_id |-> head[k].chunk_id,
          text |-> head[k].text,
          score |-> head[k].score,
          original_score |-> head[k].score,
          metadata |-> head[k].metadata]]

\* A gate that asks every item, not only the first, to reach the threshold.
check_every_item_relevant(reranked) ==
  /\ reranked # <<>>
  /\ \A k \in 1..Len(reranked) : reranked[k].score >= min_rerank_score

\* check_context_relevance
check_context_relevance(reranked) ==
  IF reranked = <<>> THEN FALSE
  ELSE reranked[1].score >= min_rerank_score

\* -------------------------------------------------------- answer synthesis
\* Length of the excerpt chunk.text[:200] of a source reference, in
\* characters (scaled down).
ExcerptLen == 1

\* chunk.text[:200] + "..." if len(chunk.text) > 200 else chunk.text
SourceExcerpt(text) ==
  IF Len(text) > ExcerptLen
  THEN Slice(text, 0, ExcerptLen) \o <<".", ".", ".">>
  ELSE text

\* Source references numbered from 0 (enumerate's index without the + 1).
create_source_references_from_zero(cs) ==
  [k \in 1..Len(cs) |->
     [id |-> k - 1,
      text |-> SourceExcerpt(cs[k].text),
      document |-> cs[k].metadata.source,
      score |-> cs[k].score,
      chunk_id |-> cs[k].chunk_id,
      section |-> cs[k].metadata.section]]

\* _create_source_references: the k-th chunk of the list (enumerate index
\* i = k - 1) gives the source reference with id = i + 1.
create_source_references(cs) ==
  [k \in 1..Len(cs) |->
     [id |-> k,
      text |-> SourceExcerpt(cs[k].text),
      document |-> cs[k].metadata.source,
      score |-> cs[k].score,
      chunk_id |-> cs[k].chunk_id,
      section |-> cs[k].metadata.section]]

\* _build_prompt, lines 197-205: one block per context chunk, headed [i+1].
ContextBlocks(cs) ==
  [k \in 1..Len(cs) |->
     [number |-> k,
      source |-> cs[k].metadata.source,
      text |-> cs[k].text]]

\* s[i:] of Python: a negative i counts from the end, and -0 is 0.
SliceFrom(s, i) ==
  LET from == IF i < 0
              THEN (IF Len(s) + i > 0 THEN Len(s) + i ELSE 0)
              ELSE Min(i, Len(s))
  IN  SubSeq(s, from + 1, Len(s))

\* f"{role}: {msg.content}" with role "User" for "user", else "Assistant".
HistoryLine(msg) ==
  <<IF msg.role = "user" THEN "User" ELSE "Assistant", msg.content>>

\* _build_prompt, lines 207-214: the lines of the previous conversation,
\* from chat_history[-settings.chat_history_turns:].
HistoryMessages(chat_history, turns) ==
  IF chat_history = <<>> THEN <<>>
  ELSE LET kept == SliceFrom(chat_history, 0 - turns)
       IN  [k \in 1..Len(kept) |-> HistoryLine(kept[k])]

\* _build_prompt: the parts of the prompt that depend on the arguments.
build_prompt(query, context_chunks, chat_history, turns) ==
  [query |-> query,
   context |-> ContextBlocks(context_chunks),
   history |-> HistoryMessages(chat_history, turns)]

\* retrieve_and_rerank, lines 56-68: embed the query; embed_query raises on
\* a query whose cleaned text is empty and when the provider fails.
StartQuery(query, k_retrieval, k_rerank, ok) ==
  /\ qpc = "idle"
  /\ top_k' = [retrieval |-> k_retrieval, rerank |-> k_rerank]
  /\ retrieved_chunks' = <<>>
  /\ reranked_chunks' = <<>>
  /\ rerank_status' = "none"
  /\ rerank_response' = <<>>
  /\ has_relevant_context' = FALSE
  /\ invoked' = <<>>
  /\ query_response' = NoResponse
  /\ qpc' = IF CleanText(query) # <<>> /\ ok THEN "search" ELSE "failed"
  /\ UNCHANGED <<store, ivars, uvars>>

\* A vector search step without the early return on an empty list.
SearchThenAlwaysRerank(ok, hits) ==
  /\ qpc = "search"
  /\ retrieved_chunks' =
       IF ok THEN [i \in 1..Len(hits) |-> RetrievedChunk(hits[i][1], hits[i][2])]
       ELSE <<>>
  /\ qpc' = IF ~ok THEN "failed" ELSE "rerank"
  /\ UNCHANGED <<store, ivars, uvars, top_k, reranked_chunks, rerank_status,
                 rerank_response, has_relevant_context, invoked, query_response>>

\* retrieve_and_rerank, lines 70-82: vector search; a failure of the
\* database is raised; no hit returns the empty list.
Search(ok, hits) ==
  /\ qpc = "search"
  /\ retrieved_chunks' =
       IF ok THEN [i \in 1..Len(hits) |-> RetrievedChunk(hits[i][1], hits[i][2])]
       ELSE <<>>
  /\ qpc' = IF ~ok THEN "failed" ELSE IF hits = <<>> THEN "gate" ELSE "rerank"
  /\ UNCHANGED <<store, ivars, uvars, top_k, reranked_chunks, rerank_status,
                 rerank_response, has_relevant_context, invoked, query_response>>

\* retrieve_and_rerank, lines 86-104, with _rerank_with_cohere: the provider
\* answers with `response`, or fails and the fallback list is returned.
Rerank(ok, response) ==
  /\ qpc = "rerank"
  /\ reranked_chunks' =
       IF ok THEN RerankedFrom(retrieved_chunks, response)
       ELSE FallbackFrom(retrieved_chunks, top_k.rerank)
  /\ rerank_status' = IF ok THEN "ok" ELSE "failed"
  /\ rerank_response' = IF ok THEN response ELSE <<>>
  /\ qpc' = "gate"
  /\ UNCHANGED <<store, ivars, uvars, top_k, retrieved_chunks,
                 has_relevant_context, invoked, query_response>>

\* query (routes/chat.py), line 136: the relevance gate.
CheckRelevance ==
  /\ qpc = "gate"
  /\ has_relevant_context' = check_context_relevance(reranked_chunks)
  /\ qpc' = "gated"
  /\ UNCHANGED <<store, ivars, uvars, top_k, retrieved_chunks, reranked_chunks,
                 rerank_status, rerank_response, invoked, query_response>>

\* A response step that builds the source list on the no-context path too.
RespondWithSourcesAlways(ok) ==
  /\ qpc = "gated"
  /\ invoked' =
       Append(invoked, IF has_relevant_context THEN "generate_answer"
                       ELSE "generate_general_answer")
  /\ query_response' =
       IF ~has_relevant_context
       THEN [answer |-> "no_information",
             sources |-> create_source_references(reranked_chunks),
             has_context |-> FALSE,
             general_answer |-> IF ok THEN "generated" ELSE "apology",
             token_usage |-> "none"]
       ELSE IF ok
       THEN [answer |-> "generated",
             sources |-> create_source_references(reranked_chunks),
             has_context |-> TRUE,
             general_answer |-> "none",
             token_usage |-> "estimate"]
       ELSE NoResponse
  /\ qpc' = IF has_relevant_context /\ ~ok THEN "failed" ELSE "responded"
  /\ UNCHANGED <<store, ivars, uvars, top_k, retrieved_chunks, reranked_chunks,
                 rerank_status, rerank_response, has_relevant_context>>

\* query (routes/chat.py), lines 138-192: without relevant context the
\* general answer is generated (generate_general_answer catches a failure of
\* the provider and returns an apology); with it, generate_answer is called
\* on the reranked chunks, and its failure is raised (HTTP 500).
Respond(ok) ==
  /\ qpc = "gated"
  /\ invoked' =
       Append(invoked, IF has_relevant_context THEN "generate_answer"
                       ELSE "generate_general_answer")
  /\ query_response' =
       IF ~has_relevant_context
       THEN [answer |-> "no_information",
             sources |-> <<>>,
             has_context |-> FALSE,
             general_answer |-> IF ok THEN "generated" ELSE "apology",
             token_usage |-> "none"]
       ELSE IF ok
       THEN [answer |-> "generated",
             sources |-> create_source_references(reranked_chunks),
             has_context |-> TRUE,
             general_answer |-> "none",
             token_usage |-> "estimate"]
       ELSE NoResponse
  /\ qpc' = IF has_relevant_context /\ ~ok THEN "failed" ELSE "responded"
  /\ UNCHANGED <<store, ivars, uvars, top_k, retrieved_chunks, reranked_chunks,
                 rerank_status, rerank_response, has_relevant_context>>

\* The query request is over (answered, or failed with an error response)
\* and its locals are gone.
QueryReturn ==
  /\ qpc \in {"responded", "failed"}
  /\ qpc' = "idle"
  /\ top_k' = [retrieval |-> 0, rerank |-> 0]
  /\ retrieved_chunks' = <<>>
  /\ reranked_chunks' = <<>>
  /\ rerank_status' = "none"
  /\ rerank_response' = <<>>
  /\ has_relevant_context' = FALSE
  /\ invoked' = <<>>
  /\ query_response' = NoResponse
  /\ UNCHANGED <<store, ivars, uvars>>

\* A new query request arrives.
QueryRequest ==
  \E query \in Queries, k_retrieval \in TopKRetrieval,
     k_rerank \in 0..MaxTopKRerank, ok \in BOOLEAN :
    StartQuery(query, k_retrieval, k_rerank, ok)

\* One step of the query request.
QueryStep ==
  \/ \E ok \in BOOLEAN, hits \in SearchHits(store, top_k.retrieval) :
       Search(ok, hits)
  \/ \E ok \in BOOLEAN,
        response \in RerankResponses(Len(retrieved_chunks), top_k.rerank) :
       Rerank(ok, response)
  \/ CheckRelevance
  \/ \E ok \in BOOLEAN : Respond(ok)
  \/ QueryReturn

\* Sequences over S of length at most n.
SeqsUpTo(S, n) == UNION { [1..k -> S] : k \in 0..n }

\* ------------------------------------------------------ chunk_text, called
\* Longest text, in characters, and largest chunk size, in tokens, of a
\* chunk_text call.
MaxTextLen == 4
MaxChunkSize == 3

\* Iterations after which a loop that has not ended is left running.
MaxLoopSteps == MaxTextLen + 1

\* tokens[start:end] of Python: a negative index counts from the end, and
\* both indices are clipped to the list.
TokenWindow(tokens, start, end) ==
  LET clip(i) == IF i < 0
                 THEN (IF Len(tokens) + i > 0 THEN Len(tokens) + i ELSE 0)
                 ELSE Min(i, Len(tokens))
  IN  IF clip(start) >= clip(end) THEN <<>>
      ELSE SubSeq(tokens, clip(start) + 1, clip(end))

\* A chunk_text whose single chunk is the stripped text.
ChunkTextStripped(text, size, overlap) ==
  /\ chunker.pc = "idle"
  /\ chunker' =
       LET tokens == encode(text)
           call == [pc |-> "returned", text |-> text, chunk_size |-> size,
                    chunk_overlap |-> overlap, tokens |-> <<>>, start |-> 0,
                    chunks |-> <<>>]
       IN  IF text = <<>> \/ Strip(text) = <<>> THEN call
           ELSE IF Len(tokens) <= size
                THEN [call EXCEPT !.tokens = tokens, !.chunks = <<Strip(text)>>]
                ELSE [call EXCEPT !.tokens = tokens, !.pc = "loop"]
  /\ UNCHANGED <<store, ivars, qvars, answer, xvars>>

\* TextChunker(size, overlap).chunk_text(text), lines 57-69: the early
\* returns (blank text, text of at most chunk_size tokens) and the entry
\* into the loop.  __init__ stores size and overlap as they are given.
ChunkText(text, size, overlap) ==
  /\ chunker.pc = "idle"
  /\ chunker' =
       LET tokens == encode(text)
           call == [pc |-> "returned", text |-> text, chunk_size |-> size,
                    chunk_overlap |-> overlap, tokens |-> <<>>, start |-> 0,
                    chunks |-> <<>>]
       IN  IF text = <<>> \/ Strip(text) = <<>> THEN call
           ELSE IF Len(tokens) <= size
                THEN [call EXCEPT !.tokens = tokens, !.chunks = <<text>>]
                ELSE [call EXCEPT !.tokens = tokens, !.pc = "loop"]
  /\ UNCHANGED <<store, ivars, qvars, answer, xvars>>

\* An iteration that starts the next window where this one ended.
ChunkLoopWithoutOverlap ==
  /\ chunker.pc = "loop"
  /\ Len(chunker.chunks) < MaxLoopSteps
  /\ LET total_tokens == Len(chunker.tokens)
         end == chunker.start + chunker.chunk_size
         chunk == decode(TokenWindow(chunker.tokens, chunker.start, end))
     IN  chunker' =
           IF end >= total_tokens
           THEN [chunker EXCEPT !.chunks = Append(@, chunk), !.pc = "returned"]
           ELSE [chunker EXCEPT
                   !.chunks = Append(@, chunk),
                   !.start = end,
                   !.pc = IF end < total_tokens THEN "loop" ELSE "returned"]
  /\ UNCHANGED <<store, ivars, qvars, answer, xvars>>

\* An iteration that starts the next window one token too late.
ChunkLoopDroppingToken ==
  /\ chunker.pc = "loop"
  /\ Len(chunker.chunks) < MaxLoopSteps
  /\ LET total_tokens == Len(chunker.tokens)
         end == chunker.start + chunker.chunk_size
         chunk == decode(TokenWindow(chunker.tokens, chunker.start, end))
     IN  chunker' =
           IF end >= total_tokens
           THEN [chunker EXCEPT !.chunks = Append(@, chunk), !.pc = "returned"]
           ELSE [chunker EXCEPT
                   !.chunks = Append(@, chunk),
                   !.start = end - chunker.chunk_overlap + 1,
                   !.pc = IF end - chunker.chunk_overlap + 1 < total_tokens
                          THEN "loop" ELSE "returned"]
  /\ UNCHANGED <<store, ivars, qvars, answer, xvars>>

\* chunk_text, lines 71-87: one iteration of the while loop; the loop ends
\* at the break (end >= total_tokens) or when start < total_tokens fails.
ChunkLoop ==
  /\ chunker.pc = "loop"
  /\ Len(chunker.chunks) < MaxLoopSteps
  /\ LET total_tokens == Len(chunker.tokens)
         end == chunker.start + chunker.chunk_size
         chunk == decode(TokenWindow(chunker.tokens, chunker.start, end))
     IN  chunker' =
           IF end >= total_tokens
           THEN [chunker EXCEPT !.chunks = Append(@, chunk), !.pc = "returned"]
           ELSE [chunker EXCEPT
                   !.chunks = Append(@, chunk),
                   !.start = end - chunker.chunk_overlap,
                   !.pc = IF end - chunker.chunk_overlap < total_tokens
                          THEN "loop" ELSE "returned"]
  /\ UNCHANGED <<store, ivars, qvars, answer, xvars>>

\* The caller is done with the chunks chunk_text returned.
ChunkReturn ==
  /\ chunker.pc = "returned"
  /\ chunker' = NoChunker
  /\ UNCHANGED <<store, ivars, qvars, answer, xvars>>

\* ------------------------------------------------- generate_answer, called
\* Longest context list, longest chat history and largest configured
\* history window (settings.chat_history_turns) of a generate_answer call.
MaxContext == 2
MaxHistory == 2
MaxHistoryTurns == 2

\* The documents context chunks come from: (source, section, text).
ContextDocs ==
  { <<"a.txt", "", <<"a">>>>, <<"b.txt", "intro", <<"a", " ">>>> }

\* The RerankedChunk values context lists are made of.
ContextChunks ==
  { [chunk_id |-> id,
     text |-> d[3],
     score |-> sc,
     original_score |-> os,
     metadata |-> [source |-> d[1], section |-> d[2], chunk_id |-> id]] :
    id \in {"c1", "c2"}, sc \in Scores, os \in Scores, d \in ContextDocs }

\* The ChatMessage values chat histories are made of.
ChatMessages == [role : {"user", "assistant"}, content : {"m"}]

\* generate_answer: build the prompt, call the provider once, build the
\* source references; a failure of the provider is raised.  An absent
\* (None) chat_history is the empty list.
GenerateAnswer(query, context_chunks, chat_history, turns, ok) ==
  /\ answer.pc = "idle"
  /\ answer' =
       [pc |-> IF ok THEN "returned" ELSE "raised",
        context_chunks |-> context_chunks,
        chat_history |-> chat_history,
        chat_history_turns |-> turns,
        prompt |-> build_prompt(query, context_chunks, chat_history, turns),
        sources |-> IF ok THEN create_source_references(context_chunks)
                    ELSE <<>>]
  /\ UNCHANGED <<store, ivars, qvars, chunker, xvars>>

\* The caller is done with the results of generate_answer.
AnswerReturn ==
  /\ answer.pc # "idle"
  /\ answer' = NoAnswer
  /\ UNCHANGED <<store, ivars, qvars, chunker, xvars>>

\* ------------------------------------------------------ chunk identifiers
\* Largest chunk index handed to generate_chunk_id (two decimal digits).
MaxChunkIndex == 11

\* Source names as character strings: with the separator "_" and with a
\* digit in them.
IdSources == { <<"a">>, <<"a", "1">>, <<"a", "_", "1">>, <<"1">> }

\* Texts that agree on their first IdPrefixLen characters or not.
IdTexts == { <<"a">>, <<"a", " ", "a">>, <<"a", " ", " ">> }

\* str(index) for an index >= 0: its decimal digits.
RECURSIVE str(_)
str(n) ==
  LET digit(d) == <<"0", "1", "2", "3", "4", "5", "6", "7", "8", "9">>[d + 1]
  IN  IF n < 10 THEN <<digit(n)>> ELSE str(n \div 10) \o <<digit(n % 10)>>

\* The hashed string built without the separators.
chunk_id_content_unseparated(text, source, index) ==
  source \o str(index) \o Slice(text, 0, IdPrefixLen)

\* generate_chunk_id, line 26: the string that is hashed,
\* f"{source}_{index}_{text[:100]}".
chunk_id_content(text, source, index) ==
  source \o <<"_">> \o str(index) \o <<"_">> \o Slice(text, 0, IdPrefixLen)

\* One call of generate_chunk_id; the call before it is kept (history).
GenerateChunkId(text, source, index) ==
  /\ util' =
       [op |-> "generate_chunk_id",
        text |-> text, source |-> source, index |-> index,
        content |-> chunk_id_content(text, source, index),
        id |-> generate_chunk_id(text, source, index),
        last |-> IF util.op = "generate_chunk_id"
                 THEN <<[text |-> util.text, source |-> util.source,
                         index |-> util.index, content |-> util.content,
                         id |-> util.id]>>
                 ELSE <<>>]
  /\ UNCHANGED <<store, ivars, qvars, chunker, answer, upsert_call,
                 reset_response>>

\* ------------------------------------------- upsert_chunks called directly
\* Number of upsert_chunks calls in one behaviour, and the longest list.
MaxUpserts == 2
MaxListLen == 2

\* The chunks, the vectors and the metadata dicts of the lists.  A field of
\* a metadata dict that is "" (source) or <<>> (chunk_id) stands for a key
\* that is absent or empty: upsert_chunks reads both with .get(key, "").
UpsertChunkTexts == { <<"a">>, <<"a", " ">> }
UpsertVectors == { EmbedContent(<<"a">>), EmbedContent(<<"a", " ">>) }
UpsertMetadatas ==
  { [source |-> "a.txt", section |-> "",
     chunk_id |-> generate_chunk_id(<<"a">>, "a.txt", 0)],
    [source |-> "", section |-> "", chunk_id |-> <<>>] }

\* The lists of at most n elements of S.
ListsUpTo(S, n) == UNION { [1..k -> S] : k \in 0..n }

\* upsert_chunks, lines 125-183, called with three lists of any lengths;
\* the ids of the new points are fresh (uuid4).
UpsertChunksCall(cs, es, ms, ok) ==
  /\ upsert_call.n < MaxUpserts
  /\ LET points == BuildPoints(0 - (upsert_call.n + 1), cs, es, ms)
         raised == LengthMismatch(cs, es, ms) \/ (cs # <<>> /\ ~ok)
         written == IF raised \/ cs = <<>> THEN {} ELSE points
     IN  /\ ~ok => (~LengthMismatch(cs, es, ms) /\ cs # <<>>)
         /\ store' = store \cup written
         /\ upsert_call' =
              [n |-> upsert_call.n + 1,
               chunks |-> cs, embeddings |-> es, metadatas |-> ms,
               outcome |-> IF raised THEN "raised" ELSE "returned",
               count |-> Cardinality(written),
               before |-> store]
  /\ UNCHANGED <<ivars, qvars, chunker, answer, util, reset_response>>

\* ------------------------------------------- create_chunks_from_document
\* Largest number of image references of a document.
MaxImages == 4

\* The image lists: the i-th image reference of the document is i.
ImageLists == { [i \in 1..n |-> i] : n \in 0..MaxImages }

\* create_chunks_from_document, lines 203-210: the images of the chunk at
\* position idx (from 0) of n_chunks chunks.
ChunkImages(images, idx, n_chunks) ==
  IF images = <<>> THEN <<>>
  ELSE LET per == Len(images) \div n_chunks
           images_per_chunk == IF per >= 1 THEN per ELSE 1
           start_img == idx * images_per_chunk
           end_img == start_img + images_per_chunk
       IN  Slice(images, start_img, end_img)

\* One call of create_chunks_from_document: the chunks and the images
\* of every chunk's metadata.
CreateChunksFromDocument(text, images, size, overlap) ==
  /\ LET cs == chunk_text(text, size, overlap)
     IN  util' =
           [op |-> "create_chunks_from_document",
            text |-> text, images |-> images,
            chunk_size |-> size, chunk_overlap |-> overlap,
            chunks |-> cs,
            chunk_images |->
              [i \in 1..Len(cs) |-> ChunkImages(images, i - 1, Len(cs))]]
  /\ UNCHANGED <<store, ivars, qvars, chunker, answer, upsert_call,
                 reset_response>>

\* ------------------------------------------------------------ file upload
\* Number of uploads in one behaviour.
MaxUploads == 2

\* The uploaded filenames, and the names NamedTemporaryFile can give the
\* temporary file: a random stem followed by the suffix of the filename.
UploadNames == {"a.txt", "b.txt", "c.exe"}
TempStems == {"tmp1", "tmp2"}

\* Path(name).suffix
Suffix(name) == IF name = "c.exe" THEN ".exe" ELSE ".txt"

\* Path(temp_path).name for a stem and a suffix.
TempName(stem, suffix) ==
  IF suffix = ".txt"
  THEN (IF stem = "tmp1" THEN "tmp1.txt" ELSE "tmp2.txt")
  ELSE (IF stem = "tmp1" THEN "tmp1.exe" ELSE "tmp2.exe")

\* settings.allowed_file_types (of the suffixes that occur here).
allowed_file_types == {".txt"}

\* ingest_uploaded_file, lines 253-265, and ingest_file, lines 150-177: the
\* content is written to a temporary file and ingest_file runs on its
\* path, so the source name is the name of the temporary file.  A file type
\* that is not allowed raises before anything is deleted.
StartUpload(p, content, filename, stem, limit) ==
  /\ ~Running(p)
  /\ Len(srcs) < limit
  /\ LET file_name == TempName(stem, Suffix(filename))
         allowed == Suffix(file_name) \in allowed_file_types
     IN  /\ source_name' = [source_name EXCEPT ![p] = file_name]
         /\ srcs' = Append(srcs, file_name)
         /\ parsed_text' = [parsed_text EXCEPT ![p] = IF allowed THEN content ELSE <<>>]
         /\ pc' = [pc EXCEPT ![p] = IF allowed THEN "count" ELSE "failed"]
  /\ uploaded_as' = Append(uploaded_as, filename)
  /\ gen' = [gen EXCEPT ![p] = Len(srcs) + 1]
  /\ before' = [before EXCEPT ![p] = store]
  /\ prev' = [prev EXCEPT ![p] =
                [source |-> source_name[p], text |-> parsed_text[p],
                 outcome |-> Outcome(steps[p], pc[p])]]
  /\ steps' = [steps EXCEPT ![p] = NoSteps]
  /\ result' = [result EXCEPT ![p] = NoResult]
  /\ UNCHANGED <<store, existing_count, chunks, metadatas, embeddings, targeted>>
  /\ UNCHANGED <<qvars, uvars>>

\* A new upload request arrives at worker p.
UploadRequest(p, limit) ==
  \E content \in Texts, filename \in UploadNames, stem \in TempStems :
    StartUpload(p, content, filename, stem, limit)

\* --------------------------------------------------------- estimate_chunks
\* count_tokens: len(self.encoding.encode(text))
count_tokens(text) == Len(encode(text))

\* TextChunker(size, overlap).estimate_chunks(text), lines 148-159.
estimate_chunks(text, size, overlap) ==
  LET total_tokens == count_tokens(text)
      effective_size == size - overlap
      remaining_tokens == total_tokens - size
      additional_chunks ==
        (remaining_tokens + effective_size - 1) \div effective_size
  IN  IF total_tokens <= size THEN 1 ELSE 1 + additional_chunks

\* One call of estimate_chunks and one of chunk_text on the same chunker
\* and the same text.
EstimateChunks(text, size, overlap) ==
  /\ util' =
       [op |-> "estimate_chunks",
        text |-> text, chunk_size |-> size, chunk_overlap |-> overlap,
        estimate |-> estimate_chunks(text, size, overlap),
        chunks |-> chunk_text(text, size, overlap)]
  /\ UNCHANGED <<store, ivars, qvars, chunker, answer, upsert_call,
                 reset_response>>

\* ---------------------------------------------------------- reset endpoint
\* Number of ingest requests in one behaviour that also serves resets.
MaxResetIngests == 2

\* VectorStoreService.collection_name: the collection ingestion upserts
\* into and retrieval searches (`store` holds its points).
collection_name == "rag_doc"

\* settings.qdrant_collection_name (default): the collection reset clears.
qdrant_collection_name == "rag_docs"

\* Values of settings.environment ("development" is the default).
Environments == {"development", "production"}

\* The status the reset endpoint answers with.  Every exception raised in
\* its try block, the HTTPException with status 403 of the environment
\* guard included, is caught by `except Exception` and raised again as an
\* HTTPException with status 500.
ResetStatus(environment, deleted) ==
  LET raised == IF environment # "development" THEN 403
                ELSE IF ~deleted THEN 500
                ELSE 0
  IN  IF raised # 0 THEN 500 ELSE 200

\* reset_vector_database, lines 26-67.  `exists`: Qdrant has a collection
\* named settings.qdrant_collection_name; `ok`: the delete request succeeds.
Reset(environment, exists, ok) ==
  /\ reset_response = NoReset
  /\ LET status == ResetStatus(environment, exists /\ ok)
     IN  /\ store' = IF status = 200 /\ qdrant_collection_name = collection_name
                     THEN {} ELSE store
         /\ reset_response' =
              [status_code |-> status, environment |-> environment,
               before |-> store]
  /\ UNCHANGED <<ivars, qvars, chunker, answer, upsert_call, util>>

\* The reset request is over.
ResetReturn ==
  /\ reset_response # NoReset
  /\ reset_response' = NoReset
  /\ UNCHANGED <<store, ivars, qvars, chunker, answer, upsert_call, util>>

\* A new reset request arrives.
ResetRequest ==
  \E environment \in Environments, exists \in BOOLEAN, ok \in BOOLEAN :
    Reset(environment, exists, ok)

\* The worker that serves the requests when they come one after another.
Worker == CHOOSE p \in Procs : \A q \in Procs : p <= q

\* Requests served one after another by one worker.
Next == IngestRequest(Worker, MaxIngests) \/ IngestStep(Worker)

Spec == Init /\ [][Next]_vars

\* Requests served concurrently: the steps of the workers interleave.
NextConc == \E p \in Procs : IngestRequest(p, MaxConcIngests) \/ IngestStep(p)

SpecConc == Init /\ [][NextConc]_vars

\* Ingest and query requests served one after another by one worker.
NextQuery ==
  \/ qpc = "idle" /\ IngestRequest(Worker, MaxQueryIngests)
  \/ IngestStep(Worker)
  \/ ~Running(Worker) /\ QueryRequest
  \/ QueryStep

SpecQuery == Init /\ [][NextQuery]_vars

\* Calls of chunk_text with every text, chunk size and overlap (also an
\* overlap that is not below the chunk size).
NextChunk ==
  \/ /\ chunker.pc = "idle"
     /\ \E text \in SeqsUpTo(Chars, MaxTextLen),
           size \in 1..MaxChunkSize,
           overlap \in 0..MaxChunkSize :
          ChunkText(text, size, overlap)
  \/ ChunkLoop
  \/ ChunkReturn

SpecChunk == Init /\ [][NextChunk]_vars

\* Calls of generate_answer with every context list, chat history and
\* configured history window.
NextAnswer ==
  \/ /\ answer.pc = "idle"
     /\ \E query \in Queries,
           context_chunks \in SeqsUpTo(ContextChunks, MaxContext),
           chat_history \in SeqsUpTo(ChatMessages, MaxHistory),
           turns \in 0..MaxHistoryTurns,
           ok \in BOOLEAN :
          GenerateAnswer(query, context_chunks, chat_history, turns, ok)
  \/ AnswerReturn

SpecAnswer == Init /\ [][NextAnswer]_vars

\* Calls of generate_chunk_id, one after another, with every text, source
\* and index.
NextChunkId ==
  \E text \in IdTexts, source \in IdSources, index \in 0..MaxChunkIndex :
    GenerateChunkId(text, source, index)

SpecChunkId == Init /\ [][NextChunkId]_vars

\* Calls of upsert_chunks, one after another, with every three lists.
NextUpsert ==
  /\ upsert_call.n < MaxUpserts
  /\ \E cs \in ListsUpTo(UpsertChunkTexts, MaxListLen),
        es \in ListsUpTo(UpsertVectors, MaxListLen),
        ms \in ListsUpTo(UpsertMetadatas, MaxListLen),
        ok \in BOOLEAN :
       UpsertChunksCall(cs, es, ms, ok)

SpecUpsert == Init /\ [][NextUpsert]_vars

\* Calls of create_chunks_from_document with every text, image list and
\* valid chunk configuration.
NextCreateChunks ==
  \E text \in SeqsUpTo(Chars, MaxTextLen), images \in ImageLists,
     size \in 1..MaxChunkSize :
    \E overlap \in 0..(size - 1) :
      CreateChunksFromDocument(text, images, size, overlap)

SpecCreateChunks == Init /\ [][NextCreateChunks]_vars

\* Upload requests served one after another by one worker.
NextUpload == UploadRequest(Worker, MaxUploads) \/ IngestStep(Worker)

SpecUpload == Init /\ [][NextUpload]_vars

\* Calls of estimate_chunks and chunk_text with every text and every valid
\* chunk configuration (0 <= chunk_overlap < chunk_size).
NextEstimate ==
  \E text \in SeqsUpTo(Chars, MaxTextLen), size \in 1..MaxChunkSize :
    \E overlap \in 0..(size - 1) :
      EstimateChunks(text, size, overlap)

SpecEstimate == Init /\ [][NextEstimate]_vars

\* Ingest and reset requests served one after another by one worker.
NextReset ==
  \/ reset_response = NoReset /\ IngestRequest(Worker, MaxResetIngests)
  \/ IngestStep(Worker)
  \/ ~Running(Worker) /\ ResetRequest
  \/ ResetReturn

SpecReset == Init /\ [][NextReset]_vars

\* ------------------------------------------------------------------ claims
\* Every source name an ingest can run under.
AllSources == SourceNames \cup { GeneratedName(t) : t \in Times }

\* The stored points ingest g wrote.
PointsOf(g) == { pt \in store : GenOf(pt) = g }

\* The stored points of a source.
StoredUnder(source) == { pt \in store : pt.source = source }

\* What one ingest of `text` under `source`, run as ingest g, stores when
\* nothing fails: one point per chunk, in order.
ExpectedPoints(g, text, source) ==
  LET cs == chunk_text(text, chunk_size, chunk_overlap)
  IN  { [point_id |-> <<g, i>>,
         vector |-> EmbedContent(CleanText(cs[i])),
         text |-> cs[i],
         chunk_id |-> generate_chunk_id(cs[i], source, i - 1),
         source |-> source,
         section |-> ""] : i \in 1..Len(cs) }

\* Every database call of the ingest of worker p succeeded (a call that was
\* not needed counts as such).
DbCallsOk(p) ==
  /\ steps[p].count = "ok"
  /\ steps[p].delete \in {"ok", "skipped"}
  /\ steps[p].upsert \in {"ok", "skipped"}

\* C1: with every database call of the ingest succeeding and ingests run one
\* after another, an ingest under an explicit source name that returned
\* success leaves, for that source, exactly its own chunks in the store:
\* as many points as the text has chunks, none of an earlier ingest.
C1_ReingestKeepsOnlySecond ==
  \A p \in Procs :
    (pc[p] = "done" /\ DbCallsOk(p) /\ source_name[p] \in SourceNames) =>
      /\ StoredUnder(source_name[p]) = PointsOf(gen[p])
      /\ Cardinality(StoredUnder(source_name[p]))
           = Len(chunk_text(parsed_text[p], chunk_size, chunk_overlap))
      /\ result[p].chunks_created = Cardinality(StoredUnder(source_name[p]))

\* C1 witness: the same two-chunk text was ingested twice under the same
\* explicit source name, both times with success; two points are stored.
C1_Witness ==
  \E p \in Procs :
    /\ pc[p] = "done" /\ DbCallsOk(p) /\ source_name[p] \in SourceNames
    /\ prev[p].outcome = "done"
    /\ prev[p].source = source_name[p]
    /\ prev[p].text = parsed_text[p]
    /\ Cardinality({ pt \in before[p] : pt.source = source_name[p] }) = 2
    /\ Cardinality(StoredUnder(source_name[p])) = 2

\* C2 (as claimed): whenever an ingest of source S has returned success,
\* every point stored under S was written by that ingest, also when the
\* count or the delete call of the database failed during it.
C2_NoStaleChunkAfterSuccess ==
  \A p \in Procs :
    pc[p] = "done" =>
      \A pt \in StoredUnder(source_name[p]) : GenOf(pt) = gen[p]

\* C3 (as claimed): a single ingest never reaches a state in which a point
\* of its source that was stored when it started and a point it wrote are
\* stored together.
C3_NeverOldAndNewTogether ==
  \A p \in Procs :
    gen[p] > 0 =>
      ~ \E old \in before[p] \cap store, new \in PointsOf(gen[p]) :
          old.source = source_name[p] /\ new.source = source_name[p]

\* C4: when the embedding of a chunk failed or a chunk was skipped for its
\* empty cleaned text, the ingest does not return success and no point of
\* that ingest is in the store; every stored point carries the vector of
\* its own text.
C4_NoPartiallyEmbeddedBatch ==
  /\ \A p \in Procs :
       LET cs == chunk_text(parsed_text[p], chunk_size, chunk_overlap)
       IN  ( \/ steps[p].embed = "failed"
             \/ steps[p].embed = "ok" /\ \E i \in 1..Len(cs) : Strip(cs[i]) = <<>> )
           => /\ pc[p] \in {"upsert", "failed"}
              /\ ~result[p].success
              /\ PointsOf(gen[p]) = {}
  /\ \A pt \in store : pt.vector = EmbedContent(Strip(pt.text))

\* C4 witness: an ingest whose second chunk is whitespace-only was refused
\* by upsert_chunks and raised.
C4_Witness ==
  \E p \in Procs :
    /\ pc[p] = "failed"
    /\ steps[p].embed = "ok"
    /\ steps[p].upsert = "rejected"
    /\ Len(chunk_text(parsed_text[p], chunk_size, chunk_overlap)) = 2

\* C5 (as claimed): an ingest one of whose steps failed (counting or
\* deleting the existing source, embedding, upsert) does not return
\* success.
C5_FailedStepNeverSucceeds ==
  \A p \in Procs :
    ( \/ steps[p].count = "failed"
      \/ steps[p].delete = "failed"
      \/ steps[p].embed = "failed"
      \/ steps[p].upsert \in {"failed", "rejected"} )
    => (pc[p] # "done" /\ ~result[p].success)

\* C6: ingests run one after another.  After an ingest of S has failed
\* between its successful delete and its upsert, no point of S is stored
\* and the points of every other source are those stored when it started;
\* when the next ingest retries the same text under S and returns success,
\* the points of S are exactly those of an ingest that never failed.
C6_AbortAfterDeleteThenRetry ==
  \A p \in Procs :
    /\ Outcome(steps[p], pc[p]) = "aborted" =>
         /\ StoredUnder(source_name[p]) = {}
         /\ store = { pt \in before[p] : pt.source # source_name[p] }
    /\ ( /\ pc[p] = "done"
         /\ prev[p].outcome = "aborted"
         /\ prev[p].source = source_name[p]
         /\ prev[p].text = parsed_text[p] )
       => StoredUnder(source_name[p])
            = ExpectedPoints(gen[p], parsed_text[p], source_name[p])

\* C6 witness: the retry succeeded after such a failure, its points are
\* stored, and points of another source are stored beside them.
C6_Witness ==
  \E p \in Procs :
    /\ pc[p] = "done"
    /\ prev[p].outcome = "aborted"
    /\ prev[p].source = source_name[p]
    /\ prev[p].text = parsed_text[p]
    /\ StoredUnder(source_name[p]) # {}
    /\ \E pt \in store : pt.source # source_name[p]

\* C7: concurrent workers.  The points of an ingest that returned success
\* after a successful upsert are all stored unless a later delete request
\* matched them, and then none is: nothing but the delete request of
\* another ingest removes a generation, so two ingests of the same source
\* whose delete steps both ran before either upsert both stay stored.
C7_GenerationLivesUntilDeleted ==
  \A p \in Procs :
    (pc[p] = "done" /\ steps[p].upsert = "ok") =>
      PointsOf(gen[p]) =
        IF gen[p] \in targeted THEN {}
        ELSE ExpectedPoints(gen[p], parsed_text[p], source_name[p])

\* C7 witness: two concurrent ingests of the same source have both returned
\* success, every database call of both succeeded, and points written by
\* both are stored under that source.
C7_Witness ==
  \E p, q \in Procs :
    /\ p # q
    /\ pc[p] = "done" /\ pc[q] = "done"
    /\ DbCallsOk(p) /\ DbCallsOk(q)
    /\ source_name[p] = source_name[q]
    /\ PointsOf(gen[p]) # {} /\ PointsOf(gen[q]) # {}
    /\ PointsOf(gen[p]) \cup PointsOf(gen[q]) \subseteq StoredUnder(source_name[p])

\* A step changes the stored points of a source only when the worker that
\* takes the step runs an ingest of that source.
OnlyOwnSourceChanges ==
  \A s \in AllSources :
    { pt \in store' : pt.source = s } # { pt \in store : pt.source = s }
      => \E p \in Procs : pc'[p] # pc[p] /\ source_name[p] = s

\* A source that one ingest only was run for, and with success, holds
\* exactly the points of that ingest.
OwnChunksOnly ==
  \A p \in Procs :
    ( /\ pc[p] = "done"
      /\ Cardinality({ g \in 1..Len(srcs) : srcs[g] = source_name[p] }) = 1 )
    => StoredUnder(source_name[p])
         = ExpectedPoints(gen[p], parsed_text[p], source_name[p])

\* C8: concurrent workers.  No step of an ingest of source A deletes, adds
\* or alters a stored point of another source, under every interleaving;
\* and a source ingested once, with success, holds exactly the points of
\* its own ingest whatever the other ingests did in between.
C8_SourcesIndependent == [][OnlyOwnSourceChanges]_vars /\ []OwnChunksOnly

\* C8 witness: two ingests of different sources started on the empty store,
\* ran interleaved, both returned success and both hold their points.
C8_Witness ==
  \E p, q \in Procs :
    /\ p # q
    /\ pc[p] = "done" /\ pc[q] = "done"
    /\ source_name[p] # source_name[q]
    /\ before[p] = {} /\ before[q] = {}
    /\ Cardinality(StoredUnder(source_name[p])) = 2
    /\ Cardinality(StoredUnder(source_name[q])) = 2

\* retrieve_and_rerank has returned its list (the request may since have
\* failed in generate_answer).
Retrieved ==
  \/ qpc \in {"gate", "gated", "responded"}
  \/ qpc = "failed" /\ invoked # <<>>

\* The returned list is the first top_k_rerank retrieved chunks, in order,
\* each with score = original_score = its vector-search score.
IsFallbackList ==
  /\ Len(reranked_chunks) = Min(top_k.rerank, Len(retrieved_chunks))
  /\ \A k \in 1..Len(reranked_chunks) :
       /\ reranked_chunks[k].chunk_id = retrieved_chunks[k].chunk_id
       /\ reranked_chunks[k].text = retrieved_chunks[k].text
       /\ reranked_chunks[k].metadata = retrieved_chunks[k].metadata
       /\ reranked_chunks[k].score = retrieved_chunks[k].score
       /\ reranked_chunks[k].original_score = retrieved_chunks[k].score

\* C9 (as claimed): when the reranking provider failed and the vector
\* search returned a non-empty list, retrieve_and_rerank has not raised and
\* its result is non-empty and is the fallback list.
C9_FallbackNonEmpty ==
  (rerank_status = "failed" /\ retrieved_chunks # <<>>) =>
    /\ Retrieved
    /\ reranked_chunks # <<>>
    /\ IsFallbackList

\* C9 (amended): the same, for top_k_rerank >= 1; for top_k_rerank = 0 the
\* result is the empty list.
C9_FallbackNonEmptyForPositiveTopK ==
  (rerank_status = "failed" /\ retrieved_chunks # <<>>) =>
    /\ Retrieved
    /\ IsFallbackList
    /\ top_k.rerank >= 1 => reranked_chunks # <<>>
    /\ top_k.rerank = 0 => reranked_chunks = <<>>

\* C9 witness: the reranker failed on two retrieved chunks with
\* top_k_rerank = 1 and one chunk was returned.
C9_Witness ==
  /\ rerank_status = "failed"
  /\ Len(retrieved_chunks) = 2
  /\ top_k.rerank = 1
  /\ Len(reranked_chunks) = 1

\* C10: check_context_relevance is false for the empty list and, for a
\* non-empty list, true exactly when the score of the first item reaches
\* the minimum rerank score, whatever the scores of the other items and
\* whether the list comes from the reranker or from the fallback.
C10_GateLooksAtFirstItemOnly ==
  qpc = "gated" =>
    /\ reranked_chunks = <<>> => ~has_relevant_context
    /\ reranked_chunks # <<>> =>
         (has_relevant_context <=> reranked_chunks[1].score >= min_rerank_score)

\* C10 witness: a fallback list whose first item reaches the threshold and
\* whose second item does not passed the gate.
C10_Witness ==
  /\ qpc = "gated"
  /\ rerank_status = "failed"
  /\ Len(reranked_chunks) = 2
  /\ reranked_chunks[1].score >= min_rerank_score
  /\ reranked_chunks[2].score < min_rerank_score
  /\ has_relevant_context

\* The query request is over: it returned a response or raised.
QueryOver == qpc \in {"responded", "failed"}

\* The response of the no-context path: no source, has_context false, no
\* token usage.
NoContextResponse ==
  /\ query_response.sources = <<>>
  /\ ~query_response.has_context
  /\ query_response.token_usage = "none"

\* C11 (as claimed): every query request that is over has invoked exactly
\* one answer path, generate_general_answer exactly when the relevance gate
\* was false and generate_answer exactly when it was true; with the gate
\* false the response has no source, has_context false and no token usage.
C11_ExactlyOneAnswerPath ==
  QueryOver =>
    /\ Len(invoked) = 1
    /\ invoked[1] = "generate_general_answer" <=> ~has_relevant_context
    /\ invoked[1] = "generate_answer" <=> has_relevant_context
    /\ ~has_relevant_context => NoContextResponse

\* C11 (amended): the same for every query request whose retrieval did not
\* raise; a request whose retrieval raised is over without an answer path
\* invoked, and no path is invoked before the gate was evaluated.
C11_ExactlyOneAnswerPathAfterGate ==
  /\ ~QueryOver => invoked = <<>>
  /\ qpc = "responded" =>
       /\ Len(invoked) = 1
       /\ invoked[1] = "generate_general_answer" <=> ~has_relevant_context
       /\ invoked[1] = "generate_answer" <=> has_relevant_context
       /\ ~has_relevant_context => NoContextResponse
       /\ has_relevant_context => query_response.has_context
  /\ qpc = "failed" =>
       \/ invoked = <<>> /\ ~has_relevant_context
       \/ invoked = <<"generate_answer">> /\ has_relevant_context

\* C11 witness: nothing was ever ingested, retrieval was empty, the gate was
\* false and the general answer was given, without a source.
C11_Witness ==
  /\ qpc = "responded"
  /\ srcs = <<>> /\ store = {}
  /\ retrieved_chunks = <<>>
  /\ invoked = <<"generate_general_answer">>
  /\ NoContextResponse

\* C12 (as claimed): for every call of retrieve_and_rerank that returned,
\* len(reranked) <= top_k_rerank <= len(retrieved) <= top_k_retrieval.
C12_LengthChain ==
  Retrieved =>
    /\ Len(reranked_chunks) <= top_k.rerank
    /\ top_k.rerank <= Len(retrieved_chunks)
    /\ Len(retrieved_chunks) <= top_k.retrieval

\* C12 (amended): len(reranked) <= top_k_rerank and len(reranked) <=
\* len(retrieved) <= top_k_retrieval; top_k_rerank may exceed the number of
\* retrieved chunks.
C12_LengthBounds ==
  Retrieved =>
    /\ Len(reranked_chunks) <= top_k.rerank
    /\ Len(reranked_chunks) <= Len(retrieved_chunks)
    /\ Len(retrieved_chunks) <= top_k.retrieval

\* C12 witness: the reranker answered for top_k_rerank = 2 when one chunk
\* only had been retrieved.
C12_Witness ==
  /\ Retrieved
  /\ rerank_status = "ok"
  /\ top_k.rerank = 2
  /\ Len(retrieved_chunks) = 1
  /\ Len(reranked_chunks) = 1

\* C13: the reranking provider is never called on an empty retrieved list;
\* when vector search returned no result, retrieve_and_rerank returned the
\* empty list (it did not raise) and the provider was not called.
C13_EmptySearchReturnsEmpty ==
  /\ qpc = "rerank" => retrieved_chunks # <<>>
  /\ (qpc \notin {"idle", "search", "failed"} /\ retrieved_chunks = <<>>) =>
       /\ reranked_chunks = <<>>
       /\ rerank_status = "none"
       /\ rerank_response = <<>>

\* C13 witness: a search with top_k_retrieval >= 1 returned nothing and
\* retrieve_and_rerank returned the empty list.
C13_Witness ==
  /\ qpc = "gate"
  /\ top_k.retrieval >= 1 /\ top_k.rerank >= 1
  /\ retrieved_chunks = <<>>
  /\ reranked_chunks = <<>>
  /\ rerank_status = "none"

\* C14: when the reranking provider succeeded, the returned list has one
\* item per result of the provider, in the provider's order; the k-th item
\* has the chunk_id, text and metadata of the retrieved chunk at the k-th
\* result's index, the result's relevance score as score and that chunk's
\* vector-search score as original_score.
C14_RerankedFollowsProvider ==
  rerank_status = "ok" =>
    /\ Len(reranked_chunks) = Len(rerank_response)
    /\ \A k \in 1..Len(reranked_chunks) :
         /\ rerank_response[k][1] + 1 \in 1..Len(retrieved_chunks)
         /\ LET original_chunk == retrieved_chunks[rerank_response[k][1] + 1]
            IN  /\ reranked_chunks[k].chunk_id = original_chunk.chunk_id
                /\ reranked_chunks[k].text = original_chunk.text
                /\ reranked_chunks[k].metadata = original_chunk.metadata
                /\ reranked_chunks[k].score = rerank_response[k][2]
                /\ reranked_chunks[k].original_score = original_chunk.score

\* C14 witness: the provider put the second retrieved chunk first, with a
\* relevance score that differs from its vector-search score.
C14_Witness ==
  /\ rerank_status = "ok"
  /\ Len(retrieved_chunks) = 2
  /\ Len(rerank_response) = 2
  /\ rerank_response[1][1] = 1
  /\ retrieved_chunks[1].chunk_id # retrieved_chunks[2].chunk_id
  /\ reranked_chunks[1].chunk_id = retrieved_chunks[2].chunk_id
  /\ reranked_chunks[1].score # reranked_chunks[1].original_score

\* C15: generate_answer returned for a context list of length N: the source
\* list has length N, its k-th source has id k and the chunk_id, document,
\* section and score of the k-th context chunk, and the k-th block of the
\* prompt is numbered k and holds the text of that chunk, whatever the
\* vector-search scores (original_score) of the chunks.
C15_SourcesFollowContextOrder ==
  answer.pc = "returned" =>
    LET cs == answer.context_chunks
    IN  /\ Len(answer.sources) = Len(cs)
        /\ Len(answer.prompt.context) = Len(cs)
        /\ \A k \in 1..Len(cs) :
             /\ answer.sources[k].id = k
             /\ answer.sources[k].chunk_id = cs[k].chunk_id
             /\ answer.sources[k].document = cs[k].metadata.source
             /\ answer.sources[k].section = cs[k].metadata.section
             /\ answer.sources[k].score = cs[k].score
             /\ answer.prompt.context[k].number = k
             /\ answer.prompt.context[k].text = cs[k].text

\* C15 witness: two context chunks [A, B] of different documents, B with
\* the higher vector-search score, gave the sources 1 -> A and 2 -> B.
C15_Witness ==
  /\ answer.pc = "returned"
  /\ Len(answer.context_chunks) = 2
  /\ answer.context_chunks[1].chunk_id # answer.context_chunks[2].chunk_id
  /\ answer.context_chunks[1].text # answer.context_chunks[2].text
  /\ answer.context_chunks[1].original_score
       < answer.context_chunks[2].original_score
  /\ answer.sources[1].id = 1
  /\ answer.sources[1].chunk_id = answer.context_chunks[1].chunk_id
  /\ answer.sources[2].id = 2
  /\ answer.sources[2].chunk_id = answer.context_chunks[2].chunk_id

\* C16 (as claimed): for a chat history of length L and a configured
\* window H >= 0, the prompt generate_answer built holds exactly the last
\* min(H, L) messages of the history, in their order.
C16_PromptKeepsLastTurns ==
  answer.pc # "idle" =>
    LET L == Len(answer.chat_history)
        n == Min(answer.chat_history_turns, L)
    IN  /\ Len(answer.prompt.history) = n
        /\ \A k \in 1..n :
             answer.prompt.history[k]
               = HistoryLine(answer.chat_history[L - n + k])

\* The tokens of the text chunk_text was called on.
TextTokens == encode(chunker.text)

\* chunk_text was called with 0 <= overlap_tokens < max_tokens.
ValidOverlap ==
  chunker.chunk_overlap >= 0 /\ chunker.chunk_overlap < chunker.chunk_size

\* The text chunk_text was called on is empty or whitespace-only.
BlankText == chunker.text = <<>> \/ Strip(chunker.text) = <<>>

\* C17: chunk_text was called with 0 <= overlap < max_tokens on a text of
\* T > max_tokens tokens.  Chunk k (0-based) is the decoded tokens
\* [k*step, min(k*step + max_tokens, T)) with step = max_tokens - overlap;
\* it has between 1 and max_tokens tokens; a chunk that reaches token T is
\* the last one and ends the loop; the loop starts every iteration at
\* k*step < T, so it ends after at most T iterations; and the chunks of a
\* text that is not whitespace-only reach token T when it has returned.
C17_WindowsOfTheTokenStream ==
  ( /\ chunker.pc # "idle"
    /\ ValidOverlap
    /\ Len(TextTokens) > chunker.chunk_size ) =>
    LET T == Len(TextTokens)
        size == chunker.chunk_size
        step == chunker.chunk_size - chunker.chunk_overlap
        cs == chunker.chunks
        first(k) == (k - 1) * step
        last(k) == Min((k - 1) * step + size, T)
    IN  /\ \A k \in 1..Len(cs) :
             /\ cs[k] = decode(Slice(TextTokens, first(k), last(k)))
             /\ last(k) - first(k) >= 1
             /\ last(k) - first(k) <= size
             /\ last(k) = T => (k = Len(cs) /\ chunker.pc = "returned")
        /\ Len(cs) <= T
        /\ chunker.pc = "loop" =>
             (chunker.start = Len(cs) * step /\ chunker.start < T)
        /\ (chunker.pc = "returned" /\ ~BlankText) =>
             (cs # <<>> /\ last(Len(cs)) = T)

\* C17 witness: a text of four tokens was chunked with max_tokens = 2 and
\* overlap = 1 into three chunks.
C17_Witness ==
  /\ chunker.pc = "returned"
  /\ chunker.chunk_size = 2 /\ chunker.chunk_overlap = 1
  /\ Len(TextTokens) = 4
  /\ Len(chunker.chunks) = 3

\* s without its first n items.
DropFirst(s, n) == SubSeq(s, Min(n, Len(s)) + 1, Len(s))

\* The tokens of the first chunk followed by the tokens of every later
\* chunk without its first `overlap` tokens.
RECURSIVE WithoutOverlap(_, _)
WithoutOverlap(cs, overlap) ==
  IF cs = <<>> THEN <<>>
  ELSE IF Len(cs) = 1 THEN encode(cs[1])
  ELSE WithoutOverlap(SubSeq(cs, 1, Len(cs) - 1), overlap)
         \o DropFirst(encode(cs[Len(cs)]), overlap)

\* C18 (as claimed): for every text and every 0 <= overlap < max_tokens,
\* the chunks chunk_text returned, with the overlap removed, give back
\* exactly the tokens of the text.
C18_ChunksReconstructTokens ==
  (chunker.pc = "returned" /\ ValidOverlap) =>
    WithoutOverlap(chunker.chunks, chunker.chunk_overlap) = TextTokens

\* C18 (amended): the same for every text that is not whitespace-only; a
\* whitespace-only text has tokens and no chunk.
C18_ChunksReconstructTokensUnlessBlank ==
  (chunker.pc = "returned" /\ ValidOverlap) =>
    /\ (chunker.text = <<>> \/ ~BlankText) =>
         WithoutOverlap(chunker.chunks, chunker.chunk_overlap) = TextTokens
    /\ BlankText => chunker.chunks = <<>>

\* C18 witness: three chunks with an overlap of one token were put back
\* together into the four tokens of the text.
C18_Witness ==
  /\ chunker.pc = "returned"
  /\ chunker.chunk_overlap = 1
  /\ Len(chunker.chunks) = 3
  /\ Len(TextTokens) = 4
  /\ WithoutOverlap(chunker.chunks, chunker.chunk_overlap) = TextTokens

\* C19 (as claimed): for every text of fewer tokens than the chunk size,
\* whitespace-only and empty texts included, chunk_text returns exactly
\* one chunk, equal to the text.
C19_ShortTextIsOneChunk ==
  (chunker.pc = "returned" /\ Len(TextTokens) < chunker.chunk_size) =>
    chunker.chunks = <<chunker.text>>

\* C19 (amended): for every text of fewer tokens than the chunk size that
\* is neither empty nor whitespace-only, chunk_text returns exactly one
\* chunk, equal to the text; for an empty or whitespace-only text it
\* returns no chunk.
C19_ShortTextIsOneChunkUnlessBlank ==
  (chunker.pc = "returned" /\ Len(TextTokens) < chunker.chunk_size) =>
    chunker.chunks = IF BlankText THEN <<>> ELSE <<chunker.text>>

\* C19 witness: a text of two tokens that ends with whitespace was
\* returned as the one chunk of a chunker of size three.
C19_Witness ==
  /\ chunker.pc = "returned"
  /\ chunker.chunk_size = 3
  /\ Len(TextTokens) = 2
  /\ Strip(chunker.text) # chunker.text
  /\ chunker.chunks = <<chunker.text>>

\* C20 (as claimed): a call of chunk_text with overlap_tokens >= max_tokens
\* on a text of more than max_tokens tokens ends with a configuration
\* error and no chunk; it never runs the loop.
C20_OverlapNotBelowSizeFails ==
  ( /\ chunker.pc # "idle"
    /\ chunker.chunk_overlap >= chunker.chunk_size
    /\ Len(TextTokens) > chunker.chunk_size ) =>
    (chunker.pc = "error" /\ chunker.chunks = <<>>)

\* C21: generate_chunk_id depends on (source, index, first characters of the
\* text) only: two calls whose sources, indexes and text prefixes agree give
\* the same hashed string and the same id, and two calls with the same text
\* that differ in the source or in the index hash different strings.
C21_ChunkIdFunctionOfSourceIndexPrefix ==
  (util.op = "generate_chunk_id" /\ util.last # <<>>) =>
    LET a == util.last[1]
        b == util
    IN  /\ ( /\ a.source = b.source
             /\ a.index = b.index
             /\ Slice(a.text, 0, IdPrefixLen) = Slice(b.text, 0, IdPrefixLen) )
           => (a.content = b.content /\ a.id = b.id)
        /\ (a.text = b.text /\ (a.source # b.source \/ a.index # b.index))
           => a.content # b.content

\* Two calls with the same text whose sources and indexes give the same
\* characters when written one after the other ("a", 11 and "a1", 1).
C21_Witness ==
  /\ util.op = "generate_chunk_id"
  /\ util.last # <<>>
  /\ util.last[1].text = util.text
  /\ util.last[1].source = <<"a">> /\ util.last[1].index = 11
  /\ util.source = <<"a", "1">> /\ util.index = 1
  /\ util.content = <<"a", "1", "_", "1", "_", "a">>

\* C22: no stored point has an empty source or an empty chunk_id: building
\* or storing such metadata fails with a validation error.
C22_NoEmptySourceOrChunkId ==
  \A pt \in store : pt.source # "" /\ pt.chunk_id # <<>>

\* C28: upsert_chunks raises and writes nothing unless its three lists have
\* the same length; when it returns for n triples it has added exactly n
\* new points, the i-th made of chunk i, embedding i and metadata i, and
\* every point stored before is still there.
C28_UpsertAllTriplesOrNothing ==
  upsert_call.outcome # "none" =>
    LET c == upsert_call.chunks
        e == upsert_call.embeddings
        m == upsert_call.metadatas
        added == store \ upsert_call.before
        same == Len(c) = Len(e) /\ Len(e) = Len(m)
    IN  /\ upsert_call.before \subseteq store
        /\ ~same => (upsert_call.outcome = "raised" /\ added = {})
        /\ upsert_call.outcome = "raised" => added = {}
        /\ (same /\ upsert_call.outcome = "returned") =>
             /\ upsert_call.count = Len(c)
             /\ Cardinality(added) = Len(c)
             /\ \A i \in 1..Len(c) :
                  \E pt \in added :
                    /\ pt.text = c[i]
                    /\ pt.vector = e[i]
                    /\ pt.source = m[i].source
                    /\ pt.chunk_id = m[i].chunk_id

\* The same for the calls whose three lists have the same length.
C28_SameLengthUpsert ==
  (Len(upsert_call.chunks) = Len(upsert_call.embeddings)
   /\ Len(upsert_call.embeddings) = Len(upsert_call.metadatas))
  => C28_UpsertAllTriplesOrNothing

\* The lists of a list of lists, one after the other.
RECURSIVE Flatten(_)
Flatten(lists) ==
  IF lists = <<>> THEN <<>> ELSE Head(lists) \o Flatten(Tail(lists))

\* C23: for n image references and m >= 1 chunks every image goes to exactly
\* one chunk, in document order: chunk i gets n div m images, one more when
\* i is among the first n mod m chunks, and the image lists of the chunks,
\* one after the other, are the image list of the document.
C23_EveryImageInOneChunk ==
  (util.op = "create_chunks_from_document" /\ Len(util.chunks) >= 1) =>
    LET n == Len(util.images)
        m == Len(util.chunks)
    IN  /\ Flatten(util.chunk_images) = util.images
        /\ \A i \in 1..m :
             Len(util.chunk_images[i]) =
               (n \div m) + (IF i <= n % m THEN 1 ELSE 0)

\* The same for the documents whose number of images is a multiple of the
\* number of chunks.
C23_EveryImageInOneChunkWhenDivisible ==
  (util.op = "create_chunks_from_document" /\ Len(util.chunks) >= 1
   /\ Len(util.images) % Len(util.chunks) = 0)
  => C23_EveryImageInOneChunk

\* C24: the list retrieve_and_rerank returns is deduplicated: no two of its
\* items have the same chunk_id, whatever the ingests before left in the
\* store and whatever the providers answered.
C24_ReturnedListDeduplicated ==
  Retrieved =>
    \A i, j \in 1..Len(reranked_chunks) :
      i # j => reranked_chunks[i].chunk_id # reranked_chunks[j].chunk_id

\* The generative provider failed in generate_general_answer and the request
\* was answered all the same.
GeneralAnswerFailureSwallowed ==
  /\ qpc = "responded"
  /\ query_response.general_answer = "apology"

\* C25: apart from the rerank fallback no layer swallows a provider error:
\* an ingest in which a count, delete or upsert request of the vector
\* database failed has failed, and a query request in which the generative
\* provider failed (in generate_answer or in generate_general_answer) has
\* failed.
C25_ProviderErrorsPropagate ==
  /\ \A p \in Procs :
       ( \/ steps[p].count = "failed"
         \/ steps[p].delete = "failed"
         \/ steps[p].upsert = "failed" ) => pc[p] = "failed"
  /\ ~GeneralAnswerFailureSwallowed
  /\ (qpc = "responded" /\ query_response.has_context) =>
       query_response.answer = "generated"

\* The part of C25 the code keeps: failures of upsert and of generate_answer
\* are raised.
C25_UpsertAndAnswerErrorsPropagate ==
  /\ \A p \in Procs : steps[p].upsert = "failed" => pc[p] = "failed"
  /\ (qpc = "responded" /\ query_response.has_context) =>
       query_response.answer = "generated"

\* C26: after ingest_uploaded_file(content, filename) succeeded, the chunks
\* it stored carry a source equal to the document_id it returned, which is
\* the filename, and no chunk of an earlier upload of the same filename is
\* left in the store.
C26_UploadStoredUnderDocumentId ==
  \A p \in Procs :
    (pc[p] = "done" /\ uploaded_as[gen[p]] # NoUpload) =>
      /\ result[p].document_id = uploaded_as[gen[p]]
      /\ \A pt \in PointsOf(gen[p]) : pt.source = result[p].document_id
      /\ \A g \in 1..(gen[p] - 1) :
           uploaded_as[g] = uploaded_as[gen[p]] => PointsOf(g) = {}

\* The part of C26 the code keeps: the returned document_id is the filename.
C26_DocumentIdIsFilename ==
  \A p \in Procs :
    (pc[p] = "done" /\ uploaded_as[gen[p]] # NoUpload) =>
      result[p].document_id = uploaded_as[gen[p]]

\* `not text or not text.strip()`: the text is empty or whitespace-only.
IsBlank(text) == text = <<>> \/ Strip(text) = <<>>

\* C27: an ingest of an empty or whitespace-only text under S does not fail;
\* it returns success with chunks_created = 0, sends no upsert request, and
\* leaves no chunk of S in the store, also when S had chunks before.
C27_BlankTextIngestLeavesNoChunk ==
  \A p \in Procs :
    (gen[p] > 0 /\ IsBlank(parsed_text[p])) =>
      /\ pc[p] # "failed"
      /\ pc[p] = "done" =>
           /\ result[p].success
           /\ result[p].chunks_created = 0
           /\ steps[p].upsert = "skipped"
           /\ PointsOf(gen[p]) = {}
           /\ StoredUnder(source_name[p]) = {}

\* The same for the ingests whose count and delete requests succeeded.
C27_BlankTextIngestWhenDbCallsOk ==
  \A p \in Procs :
    (gen[p] > 0 /\ IsBlank(parsed_text[p]) /\ (pc[p] = "done" => DbCallsOk(p)))
    => ( /\ pc[p] # "failed"
         /\ pc[p] = "done" =>
              /\ result[p].success
              /\ result[p].chunks_created = 0
              /\ steps[p].upsert = "skipped"
              /\ PointsOf(gen[p]) = {}
              /\ StoredUnder(source_name[p]) = {} )

\* A blank text was ingested with success under a source that had chunks,
\* every database call succeeding.
C27_BlankAfterChunks ==
  \E p \in Procs :
    /\ pc[p] = "done" /\ DbCallsOk(p) /\ IsBlank(parsed_text[p])
    /\ \E pt \in before[p] : pt.source = source_name[p]

\* C29: for every text, the empty and the whitespace-only ones included, and
\* every configuration with 0 <= chunk_overlap < chunk_size, estimate_chunks
\* returns the number of chunks chunk_text returns.
C29_EstimateIsChunkCount ==
  util.op = "estimate_chunks" => util.estimate = Len(util.chunks)

\* The same for the texts that are not empty or whitespace-only.
C29_EstimateIsChunkCountUnlessBlank ==
  (util.op = "estimate_chunks" /\ ~IsBlank(util.text))
  => util.estimate = Len(util.chunks)

\* C30: with the default configuration, after reset answered with success in
\* the development environment the collection that ingest upserts into and
\* retrieval searches holds no point; in any other environment reset
\* deletes nothing and answers with status 403.
C30_ResetClearsIngestedVectors ==
  reset_response # NoReset =>
    /\ (reset_response.environment = "development"
        /\ reset_response.status_code = 200) => store = {}
    /\ reset_response.environment # "development" =>
         /\ store = reset_response.before
         /\ reset_response.status_code = 403

\* The part of C30 the code keeps: outside development nothing is deleted.
C30_NoDeleteOutsideDevelopment ==
  (reset_response # NoReset /\ reset_response.environment # "development")
  => store = reset_response.before

\* Reset answered with success in development and the ingested points are
\* still stored.
C30_SuccessWithPointsLeft ==
  /\ reset_response.environment = "development"
  /\ reset_response.status_code = 200
  /\ store # {}

====
